---- MODULE Spec2Model ----
(***************************************************************************)
(* sqlschema: Apply(db, updates) loads an ordered set of N.sql files,      *)
(* reconciles it with the schema_updates log and applies what is missing   *)
(* inside one transaction (src/open.go).                                   *)
(*                                                                         *)
(* The database engine and the http.FileSystem are collaborators: a        *)
(* transaction works on a private copy of the durable state and either     *)
(* replaces the durable state at Commit or is discarded at Rollback; any   *)
(* call into a collaborator may fail.                                      *)
(***************************************************************************)
EXTENDS Integers, Sequences, FiniteSets, TLC

\* Largest number of entries of an update collection.
MaxFiles == 3

VARIABLES
    db,         \* durable database: [table, log, schema]
    tx,         \* working copy of the open *sql.Tx, or NoTx
    pc,         \* position of the one Apply invocation
    dir,        \* the http.FileSystem given to Apply: a set of entries
    available,  \* open.go `available`
    applied,    \* open.go `applied`
    i,          \* index of the range loop over `available` (open.go:210)
    result,     \* the error Apply returns, "none" while it runs
    pre,        \* durable database when Apply was called
    dbCalls,    \* calls made on db and tx by this invocation, in order
    envFault,   \* a collaborator (file system, driver) failed in this invocation
    repeat,     \* the previous invocation returned nil with this same collection
    lastOK,     \* collection of the previous invocation when it returned nil
    effects,    \* per sequence number, how often Apply committed its SQL
    errUpdate,  \* the update (seq, filename) the returned error message names
    failedFrom  \* the database before the failed invocations just before this one

vars == <<db, tx, pc, dir, available, applied, i, result, pre, dbCalls,
          envFault, repeat, lastOK, effects, errUpdate, failedFrom>>

----------------------------------------------------------------------------
(* File names and their parsing                                            *)

Digits == <<"0", "1", "2", "3", "4", "5", "6", "7", "8", "9">>

DigitChars == {Digits[k] : k \in 1..10}

DigitValue(c) == (CHOOSE k \in 1..10 : Digits[k] = c) - 1

SqlSuffix == <<".", "s", "q", "l">>

HasSuffix(s, suf) ==
    /\ Len(s) >= Len(suf)
    /\ SubSeq(s, Len(s) - Len(suf) + 1, Len(s)) = suf

\* strings.TrimSuffix
TrimSuffix(s, suf) ==
    IF HasSuffix(s, suf) THEN SubSeq(s, 1, Len(s) - Len(suf)) ELSE s

\* updateFileMask = ^[0-9]+\.sql$
updateFileMask(name) ==
    /\ HasSuffix(name, SqlSuffix)
    /\ Len(name) > Len(SqlSuffix)
    /\ \A k \in 1..(Len(name) - Len(SqlSuffix)) : name[k] \in DigitChars

RECURSIVE DecimalValue(_)
DecimalValue(s) ==
    IF s = <<>> THEN 0
    ELSE 10 * DecimalValue(SubSeq(s, 1, Len(s) - 1)) + DigitValue(s[Len(s)])

\* strconv.ParseUint(s, 10, 64) with its error dropped: 0 on a syntax error.
\* (The names of the model have at most two digits, far below 2^64.)
ParseUint(s) ==
    IF s # <<>> /\ \A k \in 1..Len(s) : s[k] \in DigitChars
    THEN DecimalValue(s)
    ELSE 0

SeqOf(name) == ParseUint(TrimSuffix(name, SqlSuffix))

----------------------------------------------------------------------------
(* File contents, checksums and the SQL they hold                          *)

CreateA == "CREATE TABLE a (id integer);"
CreateB == "CREATE TABLE b (id integer);"
DropA == "DROP TABLE a;"

Contents == {CreateA, CreateB, DropA}

\* hex.EncodeToString(sha1.Sum(b))
Sha1Hex(b) ==
    CASE b = CreateA -> "70615a6b9b740e9927043ae3eb6175fceadadc63"
      [] b = CreateB -> "4947b09a7fd3c1c012427973286d82870511beaf"
      [] b = DropA -> "9d5bcda428a0c23bc0e05f16c79577ca16eb0224"
      [] OTHER -> "da39a3ee5e6b4b0d3255bfef95601890afd80709"

\* tx.Exec(contents) on the tables of the transaction: [ok, schema]
ExecSQL(sql, schema) ==
    CASE sql = CreateA -> [ok |-> "a" \notin schema, schema |-> schema \cup {"a"}]
      [] sql = CreateB -> [ok |-> "b" \notin schema, schema |-> schema \cup {"b"}]
      [] sql = DropA -> [ok |-> "a" \in schema, schema |-> schema \ {"a"}]
      [] OTHER -> [ok |-> FALSE, schema |-> schema]

----------------------------------------------------------------------------
(* Update collections: the entries Readdir returns                         *)

Name(digits) == digits \o SqlSuffix

File(name, contents) == [name |-> name, isDir |-> FALSE, contents |-> contents]

Directory(name) == [name |-> name, isDir |-> TRUE, contents |-> ""]

\* 1.sql .. N.sql, with any contents
SeqNames == {Name(<<Digits[n + 1]>>) : n \in 1..MaxFiles}

\* 02.sql (zero padded; before 1.sql in lexical order), 0.sql (sequence 0),
\* x.sql (not matching the mask)
OddNames == {Name(<<"0", "2">>), Name(<<"0">>), Name(<<"x">>)}

Entries ==
    {File(n, c) : n \in SeqNames, c \in Contents}
        \cup {File(n, CreateB) : n \in OddNames}
        \cup {Directory(Name(<<"2">>))}

Collections ==
    {d \in SUBSET Entries :
        /\ Cardinality(d) <= MaxFiles
        /\ \A e1, e2 \in d : e1.name = e2.name => e1 = e2}

----------------------------------------------------------------------------
(* Apply, lines 84-156: load the update set                                *)

InvalidUpdateFilesError == "InvalidUpdateFilesError"
UpdateSchemaError == "UpdateSchemaError"
PlainError == "error"
Nil == "nil"

\* open.go:32-39: InvalidUpdateFilesError and UpdateSchemaError are defined
\* types whose underlying type is the interface error, so their method set
\* is that of error; the values fmt.Errorf builds also have Unwrap.
MethodSet(T) ==
    CASE T \in {InvalidUpdateFilesError, UpdateSchemaError, PlainError} -> {"Error"}
      [] T = "*fmt.wrapError" -> {"Error", "Unwrap"}
      [] OTHER -> {}

\* The type of the value Apply returns for a result: the conversions
\* InvalidUpdateFilesError(e) and UpdateSchemaError(e) are conversions to an
\* interface type and leave e, the value built by fmt.Errorf, as it is.
DynamicType(res) == IF res = Nil THEN "nil" ELSE "*fmt.wrapError"

\* errors.As(err, &e) with e of the interface type T, as the tests use it: a
\* non-nil err whose type implements T can be assigned to e.
ErrorsAs(res, T) ==
    res # Nil /\ MethodSet(T) \subseteq MethodSet(DynamicType(res))

\* Faulty variant: the entries are sorted by name, byte by byte
SortSliceLexical(d) ==
    LET Code(c) == CASE c = "." -> 46
                     [] c \in DigitChars -> 48 + DigitValue(c)
                     [] c = "l" -> 108
                     [] c = "q" -> 113
                     [] c = "s" -> 115
                     [] OTHER -> 120
        Min(a, b) == IF a < b THEN a ELSE b
        LexLessEq(a, b) ==
            \/ a = b
            \/ \E k \in 1..(Min(Len(a), Len(b)) + 1) :
                /\ \A j \in 1..(k - 1) : a[j] = b[j]
                /\ k <= Len(b)
                /\ k <= Len(a) => Code(a[k]) < Code(b[k])
    IN  {list \in [1..Cardinality(d) -> d] :
            /\ \A j, k \in 1..Cardinality(d) : j # k => list[j] # list[k]
            /\ \A k \in 1..(Cardinality(d) - 1) :
                  LexLessEq(list[k].name, list[k + 1].name)}

\* sort.Slice(list, less by parsed number): Readdir gives the entries in any
\* order and the sort is not stable, so any ordering that is ascending by
\* parsed number can result.
SortSlice(d) ==
    {list \in [1..Cardinality(d) -> d] :
        /\ \A j, k \in 1..Cardinality(d) : j # k => list[j] # list[k]
        /\ \A k \in 1..(Cardinality(d) - 1) :
              SeqOf(list[k].name) <= SeqOf(list[k + 1].name)}

\* Faulty variant: directories are not rejected
NamesValidNoDirCheck(d) ==
    \A file \in d : updateFileMask(file.name)

\* open.go:98-110
NamesValid(d) ==
    \A file \in d : ~file.isDir /\ updateFileMask(file.name)

\* Faulty variant: the first file is not required to be number 1
SequenceNoStartCheck(list) ==
    \A k \in 2..Len(list) :
        SeqOf(list[k].name) - SeqOf(list[k - 1].name) = 1

\* Faulty variant: only the first file is checked
SequenceStartOnly(list) ==
    list # <<>> => SeqOf(list[1].name) = 1

\* Faulty variant: the numbers must start at 1 and ascend, gaps are let through
SequenceAscendingOnly(list) ==
    \A k \in 1..Len(list) :
        IF k = 1
        THEN SeqOf(list[k].name) = 1
        ELSE SeqOf(list[k].name) - SeqOf(list[k - 1].name) >= 1

\* open.go:119-136 (list is sorted ascending, so this-prev does not wrap)
SequenceFromOne(list) ==
    \A k \in 1..Len(list) :
        IF k = 1
        THEN SeqOf(list[k].name) = 1
        ELSE SeqOf(list[k].name) - SeqOf(list[k - 1].name) = 1

\* open.go:138-156
PrepareUpdate(file) ==
    [filename |-> file.name,
     seq |-> SeqOf(file.name),
     sha1 |-> Sha1Hex(file.contents),
     contents |-> file.contents]

\* open.go:84-156. io is the failure of the file system, if any: "list"
\* (Open("/") or Readdir), "read" (Open or ReadAll of an update file).
LoadUpdates(d, list, io) ==
    IF io = "list" THEN [err |-> PlainError, available |-> <<>>]
    ELSE IF Cardinality(d) < 1
        THEN [err |-> InvalidUpdateFilesError, available |-> <<>>]
    ELSE IF ~NamesValid(d)
        THEN [err |-> InvalidUpdateFilesError, available |-> <<>>]
    ELSE IF ~SequenceFromOne(list)
        THEN [err |-> InvalidUpdateFilesError, available |-> <<>>]
    ELSE IF io = "read" THEN [err |-> PlainError, available |-> <<>>]
    ELSE [err |-> Nil,
          available |-> [k \in 1..Len(list) |-> PrepareUpdate(list[k])]]

----------------------------------------------------------------------------
(* The database                                                            *)

\* A row of schema_updates
Row(up) ==
    [filename |-> up.filename, seq |-> up.seq, sha1 |-> up.sha1,
     contents |-> up.contents]

NoTx == [open |-> FALSE, table |-> FALSE, log |-> <<>>, schema |-> {}]

\* db.Begin(): the transaction starts from the durable state
BeginTx(d) ==
    [open |-> TRUE, table |-> d.table, log |-> d.log, schema |-> d.schema]

\* tx.Commit() succeeding: the durable state becomes the transaction's
Commit(d, t) == [table |-> t.table, log |-> t.log, schema |-> t.schema]

\* tx.Commit() failing: the engine keeps nothing of the transaction
FailedCommit(d, t) == d

\* Faulty variant: the work of the transaction stays after the rollback
RollbackKeeps(d, t) == [table |-> t.table, log |-> t.log, schema |-> t.schema]

\* Faulty variant: the tables the transaction made or dropped stay
RollbackKeepsSchema(d, t) == [d EXCEPT !.schema = t.schema]

\* defer tx.Rollback(): the durable state stays as it was
Rollback(d, t) == d

\* Faulty variant: the table is not created
CreateSchemaUpdatesNoop(t) == t

\* Faulty variant: the table is created anew, without its rows
CreateSchemaUpdatesAnew(t) == [t EXCEPT !.table = TRUE, !.log = <<>>]

\* CREATE TABLE IF NOT EXISTS schema_updates
CreateSchemaUpdates(t) == [t EXCEPT !.table = TRUE]

\* Faulty variant: the row records the index of the update, counted from 0
InsertZeroBasedSeq(t, up) ==
    [t EXCEPT !.log = Append(@, [Row(up) EXCEPT !.seq = up.seq - 1])]

\* INSERT INTO schema_updates(filename, seq, sha1, timestamp, contents); the
\* timestamp is time.Now() and is never read back by the library.
InsertSchemaUpdate(t, up) == [t EXCEPT !.log = Append(@, Row(up))]

\* SELECT filename, seq, sha1 FROM schema_updates ORDER BY seq ASC: the rows
\* in any order that is ascending by seq, without the contents column.
QueryApplied(log) ==
    {[k \in 1..Len(log) |->
        [filename |-> log[p[k]].filename, seq |-> log[p[k]].seq,
         sha1 |-> log[p[k]].sha1]] :
     p \in {q \in [1..Len(log) -> 1..Len(log)] :
              /\ \A j, k \in 1..Len(log) : j # k => q[j] # q[k]
              /\ \A k \in 1..(Len(log) - 1) : log[q[k]].seq <= log[q[k + 1]].seq}}

\* Faulty variant: a matched update is checked but not dropped from available
RECURSIVE ReconcileKeeping(_, _, _)
ReconcileKeeping(app, avail, all) ==
    IF app = <<>> THEN [err |-> Nil, reason |-> "", available |-> all]
    ELSE IF Len(avail) = 0
        THEN [err |-> UpdateSchemaError, reason |-> "unknown update", available |-> <<>>]
    ELSE IF Head(app).seq # avail[1].seq
        THEN [err |-> UpdateSchemaError, reason |-> "sequence", available |-> <<>>]
    ELSE IF Head(app).sha1 # avail[1].sha1
        THEN [err |-> UpdateSchemaError, reason |-> "checksum", available |-> <<>>]
    ELSE ReconcileKeeping(Tail(app), Tail(avail), all)

ReconcileKeepsApplied(app, avail) == ReconcileKeeping(app, avail, avail)

\* Faulty variant: the checksums are not compared
RECURSIVE ReconcileNoChecksum(_, _)
ReconcileNoChecksum(app, avail) ==
    IF app = <<>> THEN [err |-> Nil, reason |-> "", available |-> avail]
    ELSE IF Len(avail) = 0
        THEN [err |-> UpdateSchemaError, reason |-> "unknown update", available |-> <<>>]
    ELSE IF Head(app).seq # avail[1].seq
        THEN [err |-> UpdateSchemaError, reason |-> "sequence", available |-> <<>>]
    ELSE ReconcileNoChecksum(Tail(app), Tail(avail))

\* Faulty variant: one update too many is dropped from available
RECURSIVE ReconcileDropsOneMore(_, _)
ReconcileDropsOneMore(app, avail) ==
    IF app = <<>>
        THEN [err |-> Nil, reason |-> "",
              available |-> IF avail = <<>> THEN <<>> ELSE Tail(avail)]
    ELSE IF Len(avail) = 0
        THEN [err |-> UpdateSchemaError, reason |-> "unknown update", available |-> <<>>]
    ELSE IF Head(app).seq # avail[1].seq
        THEN [err |-> UpdateSchemaError, reason |-> "sequence", available |-> <<>>]
    ELSE IF Head(app).sha1 # avail[1].sha1
        THEN [err |-> UpdateSchemaError, reason |-> "checksum", available |-> <<>>]
    ELSE ReconcileDropsOneMore(Tail(app), Tail(avail))

\* Faulty variant: the log is not consulted at all
ReconcileIgnoresLog(app, avail) ==
    [err |-> Nil, reason |-> "", available |-> avail]

\* Faulty variant: applied rows beyond the loaded updates are accepted
RECURSIVE ReconcileStopsAtLoaded(_, _)
ReconcileStopsAtLoaded(app, avail) ==
    IF app = <<>> \/ avail = <<>>
        THEN [err |-> Nil, reason |-> "", available |-> avail]
    ELSE IF Head(app).seq # avail[1].seq
        THEN [err |-> UpdateSchemaError, reason |-> "sequence", available |-> <<>>]
    ELSE IF Head(app).sha1 # avail[1].sha1
        THEN [err |-> UpdateSchemaError, reason |-> "checksum", available |-> <<>>]
    ELSE ReconcileStopsAtLoaded(Tail(app), Tail(avail))

\* Faulty variant: the sequence numbers are not compared
RECURSIVE ReconcileNoSeqCheck(_, _)
ReconcileNoSeqCheck(app, avail) ==
    IF app = <<>> THEN [err |-> Nil, reason |-> "", available |-> avail]
    ELSE IF Len(avail) = 0
        THEN [err |-> UpdateSchemaError, reason |-> "unknown update", available |-> <<>>]
    ELSE IF Head(app).sha1 # avail[1].sha1
        THEN [err |-> UpdateSchemaError, reason |-> "checksum", available |-> <<>>]
    ELSE ReconcileNoSeqCheck(Tail(app), Tail(avail))

\* open.go:185-207: [err, reason, available]
RECURSIVE Reconcile(_, _)
Reconcile(app, avail) ==
    IF app = <<>> THEN [err |-> Nil, reason |-> "", available |-> avail]
    ELSE IF Len(avail) = 0
        THEN [err |-> UpdateSchemaError, reason |-> "unknown update", available |-> <<>>]
    ELSE IF Head(app).seq # avail[1].seq
        THEN [err |-> UpdateSchemaError, reason |-> "sequence", available |-> <<>>]
    ELSE IF Head(app).sha1 # avail[1].sha1
        THEN [err |-> UpdateSchemaError, reason |-> "checksum", available |-> <<>>]
    ELSE Reconcile(Tail(app), Tail(avail))

\* Databases Apply can be handed: a new one, one whose log table is empty,
\* and ones whose log was written by something else (a gap, a duplicate, a
\* log that does not start at 1).
LogRow(name, contents) == Row(PrepareUpdate(File(name, contents)))

ForeignLogs ==
    {<<LogRow(Name(<<"2">>), CreateA)>>,
     <<LogRow(Name(<<"1">>), CreateA), LogRow(Name(<<"3">>), CreateB)>>,
     <<LogRow(Name(<<"1">>), CreateA), LogRow(Name(<<"0", "1">>), CreateB)>>}

NewDatabases ==
    {[table |-> t, log |-> <<>>, schema |-> s] :
        t \in BOOLEAN, s \in SUBSET {"a"}}

PreexistingDatabases ==
    NewDatabases \cup
    {[table |-> TRUE, log |-> l, schema |-> {"a"}] : l \in ForeignLogs}

----------------------------------------------------------------------------
(* Apply (open.go:83-229), one action per step                             *)

NoCollection == [set |-> FALSE, dir |-> {}]

\* The previous invocation, if any, returned nil
NoFailure == [set |-> FALSE, db |-> [table |-> FALSE, log |-> <<>>, schema |-> {}]]

\* The "%d (%s)" of the messages of open.go:213 and open.go:219
NoUpdate == [seq |-> 0, filename |-> <<>>]

Named(up) == [seq |-> up.seq, filename |-> up.filename]

DbCall(op, seq, ok) == [op |-> op, seq |-> seq, ok |-> ok]

TypeOK ==
    /\ pc \in {"idle", "load", "begin", "create", "query", "reconcile",
               "exec", "insert", "commit", "done"}
    /\ dir \in Collections
    /\ result \in {"none", Nil, InvalidUpdateFilesError, UpdateSchemaError, PlainError}
    /\ db.table \in BOOLEAN
    /\ tx.open \in BOOLEAN
    /\ i \in 0..(MaxFiles + 1)
    /\ envFault \in BOOLEAN
    /\ repeat \in BOOLEAN

Init ==
    /\ db \in PreexistingDatabases
    /\ tx = NoTx
    /\ pc = "idle"
    /\ dir = {}
    /\ available = <<>>
    /\ applied = <<>>
    /\ i = 0
    /\ result = "none"
    /\ pre = db
    /\ dbCalls = <<>>
    /\ envFault = FALSE
    /\ repeat = FALSE
    /\ lastOK = NoCollection
    /\ effects = [s \in 1..MaxFiles |-> 0]
    /\ errUpdate = NoUpdate
    /\ failedFrom = NoFailure

\* A database that no one has written to yet.
InitFresh ==
    /\ Init
    /\ db \in NewDatabases

\* The caller invokes Apply(db, updates).
Call ==
    /\ pc = "idle"
    /\ UNCHANGED failedFrom
    /\ \E d \in Collections :
        /\ dir' = d
        /\ repeat' = (lastOK = [set |-> TRUE, dir |-> d])
    /\ pc' = "load"
    /\ pre' = db
    /\ lastOK' = NoCollection
    /\ UNCHANGED <<db, tx, available, applied, i, result, dbCalls, envFault, effects,
                   errUpdate>>

\* Faulty variant: the transaction is begun before the files are validated
LoadAfterBegin ==
    /\ pc = "load"
    /\ UNCHANGED failedFrom
    /\ \E io \in {"none", "list", "read"}, list \in SortSlice(dir) :
        LET r == LoadUpdates(dir, list, io) IN
        /\ available' = r.available
        /\ envFault' = (r.err = PlainError)
        /\ IF r.err = Nil
           THEN pc' = "begin" /\ result' = result
           ELSE pc' = "done" /\ result' = r.err
    /\ dbCalls' = Append(dbCalls, DbCall("Begin", 0, TRUE))
    /\ UNCHANGED <<db, tx, dir, applied, i, pre, repeat, lastOK, effects,
                   errUpdate>>

\* open.go:84-156
Load ==
    /\ pc = "load"
    /\ UNCHANGED failedFrom
    /\ \E io \in {"none", "list", "read"}, list \in SortSlice(dir) :
        LET r == LoadUpdates(dir, list, io) IN
        /\ available' = r.available
        /\ envFault' = (r.err = PlainError)
        /\ IF r.err = Nil
           THEN pc' = "begin" /\ result' = result
           ELSE pc' = "done" /\ result' = r.err
    /\ UNCHANGED <<db, tx, dir, applied, i, pre, dbCalls, repeat, lastOK, effects,
                   errUpdate>>

\* open.go:158-162
Begin ==
    /\ pc = "begin"
    /\ UNCHANGED failedFrom
    /\ \E ok \in BOOLEAN :
        /\ dbCalls' = Append(dbCalls, DbCall("Begin", 0, ok))
        /\ IF ok
           THEN /\ tx' = BeginTx(db)
                /\ pc' = "create"
                /\ UNCHANGED <<result, envFault>>
           ELSE /\ result' = PlainError
                /\ pc' = "done"
                /\ envFault' = TRUE
                /\ tx' = tx
    /\ UNCHANGED <<db, dir, available, applied, i, pre, repeat, lastOK, effects,
                   errUpdate>>

\* A return with an error after Begin: the deferred tx.Rollback() runs.
Abort(call, err, fault) ==
    /\ dbCalls' = dbCalls \o <<call, DbCall("Rollback", 0, TRUE)>>
    /\ db' = Rollback(db, tx)
    /\ tx' = NoTx
    /\ result' = err
    /\ envFault' = fault
    /\ pc' = "done"

\* open.go:164-167
CreateTable ==
    /\ pc = "create"
    /\ UNCHANGED failedFrom
    /\ \E ok \in BOOLEAN :
        IF ok
        THEN /\ tx' = CreateSchemaUpdates(tx)
             /\ dbCalls' = Append(dbCalls, DbCall("ExecCreate", 0, TRUE))
             /\ pc' = "query"
             /\ UNCHANGED <<db, result, envFault>>
        ELSE Abort(DbCall("ExecCreate", 0, FALSE), UpdateSchemaError, TRUE)
    /\ UNCHANGED <<dir, available, applied, i, pre, repeat, lastOK, effects,
                   errUpdate>>

\* open.go:169-183
Query ==
    /\ pc = "query"
    /\ UNCHANGED failedFrom
    /\ \/ /\ tx.table
          /\ \E rows \in QueryApplied(tx.log) : applied' = rows
          /\ dbCalls' = Append(dbCalls, DbCall("Query", 0, TRUE))
          /\ pc' = "reconcile"
          /\ UNCHANGED <<db, tx, result, envFault>>
       \/ /\ Abort(DbCall("Query", 0, FALSE), UpdateSchemaError, tx.table)
          /\ applied' = applied
       \/ /\ tx.table /\ tx.log # <<>>      \* rows.Scan fails
          /\ Abort(DbCall("Query", 0, TRUE), PlainError, TRUE)
          /\ applied' = applied
    /\ UNCHANGED <<dir, available, i, pre, repeat, lastOK, effects,
                   errUpdate>>

\* open.go:185-207
Check ==
    /\ pc = "reconcile"
    /\ UNCHANGED failedFrom
    /\ LET r == Reconcile(applied, available) IN
        IF r.err = Nil
        THEN /\ available' = r.available
             /\ i' = 1
             /\ pc' = IF r.available = <<>> THEN "commit" ELSE "exec"
             /\ UNCHANGED <<db, tx, result, dbCalls, envFault>>
        ELSE /\ db' = Rollback(db, tx)
             /\ dbCalls' = Append(dbCalls, DbCall("Rollback", 0, TRUE))
             /\ tx' = NoTx
             /\ result' = r.err
             /\ pc' = "done"
             /\ UNCHANGED <<available, i, envFault>>
    /\ UNCHANGED <<dir, applied, pre, repeat, lastOK, effects,
                   errUpdate>>

\* Faulty variant: a failing update is skipped and the loop goes on
ExecContinuesOnError ==
    /\ pc = "exec"
    /\ UNCHANGED failedFrom
    /\ LET up == available[i]
           r == ExecSQL(up.contents, tx.schema) IN
        \E driverOK \in (IF r.ok THEN BOOLEAN ELSE {TRUE}) :
            /\ tx' = IF r.ok /\ driverOK THEN [tx EXCEPT !.schema = r.schema] ELSE tx
            /\ dbCalls' = Append(dbCalls, DbCall("Exec", up.seq, r.ok /\ driverOK))
            /\ pc' = "insert"
            /\ UNCHANGED <<db, result, envFault, errUpdate>>
    /\ UNCHANGED <<dir, available, applied, i, pre, repeat, lastOK, effects>>

\* open.go:210-215
Exec ==
    /\ pc = "exec"
    /\ UNCHANGED failedFrom
    /\ LET up == available[i]
           r == ExecSQL(up.contents, tx.schema) IN
        \E driverOK \in (IF r.ok THEN BOOLEAN ELSE {TRUE}) :
            IF r.ok /\ driverOK
            THEN /\ tx' = [tx EXCEPT !.schema = r.schema]
                 /\ dbCalls' = Append(dbCalls, DbCall("Exec", up.seq, TRUE))
                 /\ pc' = "insert"
                 /\ UNCHANGED <<db, result, envFault>>
                 /\ errUpdate' = errUpdate
            ELSE /\ Abort(DbCall("Exec", up.seq, FALSE), UpdateSchemaError, ~driverOK)
                 /\ errUpdate' = Named(up)
    /\ UNCHANGED <<dir, available, applied, i, pre, repeat, lastOK, effects>>

\* Faulty variant: the log row is written outside the transaction
InsertOutsideTx ==
    /\ pc = "insert"
    /\ UNCHANGED failedFrom
    /\ LET up == available[i] IN
        \E ok \in BOOLEAN :
            IF ok
            THEN /\ db' = [db EXCEPT !.log = Append(@, Row(up))]
                 /\ dbCalls' = Append(dbCalls, DbCall("Insert", up.seq, TRUE))
                 /\ i' = i + 1
                 /\ pc' = IF i = Len(available) THEN "commit" ELSE "exec"
                 /\ UNCHANGED <<tx, result, envFault, errUpdate>>
            ELSE /\ Abort(DbCall("Insert", up.seq, FALSE), UpdateSchemaError, TRUE)
                 /\ errUpdate' = Named(up)
                 /\ i' = i
    /\ UNCHANGED <<dir, available, applied, pre, repeat, lastOK, effects>>

\* open.go:216-221
Insert ==
    /\ pc = "insert"
    /\ UNCHANGED failedFrom
    /\ LET up == available[i] IN
        \E ok \in BOOLEAN :
            IF ok
            THEN /\ tx' = InsertSchemaUpdate(tx, up)
                 /\ dbCalls' = Append(dbCalls, DbCall("Insert", up.seq, TRUE))
                 /\ i' = i + 1
                 /\ pc' = IF i = Len(available) THEN "commit" ELSE "exec"
                 /\ UNCHANGED <<db, result, envFault, errUpdate>>
            ELSE /\ Abort(DbCall("Insert", up.seq, FALSE), UpdateSchemaError, TRUE)
                 /\ errUpdate' = Named(up)
                 /\ i' = i
    /\ UNCHANGED <<dir, available, applied, pre, repeat, lastOK, effects>>

\* How many successful tx.Exec(up.contents) of this invocation ran update s
TimesExecuted(s) ==
    Cardinality({k \in 1..Len(dbCalls) :
        dbCalls[k].op = "Exec" /\ dbCalls[k].ok /\ dbCalls[k].seq = s})

\* Faulty variant: the error of tx.Commit() is dropped and nil is returned
CommitTxIgnoresError ==
    /\ pc = "commit"
    /\ UNCHANGED failedFrom
    /\ \E ok \in BOOLEAN :
        /\ dbCalls' = dbCalls \o <<DbCall("Commit", 0, ok), DbCall("Rollback", 0, FALSE)>>
        /\ db' = IF ok THEN Commit(db, tx) ELSE FailedCommit(db, tx)
        /\ result' = Nil
        /\ envFault' = ~ok
        /\ effects' = IF ok THEN [s \in 1..MaxFiles |-> effects[s] + TimesExecuted(s)]
                          ELSE effects
    /\ tx' = NoTx
    /\ pc' = "done"
    /\ UNCHANGED <<dir, available, applied, i, pre, repeat, lastOK, errUpdate>>

\* open.go:224-228; the deferred Rollback then finds the transaction done
CommitTx ==
    /\ pc = "commit"
    /\ UNCHANGED failedFrom
    /\ \E ok \in BOOLEAN :
        /\ dbCalls' = dbCalls \o <<DbCall("Commit", 0, ok), DbCall("Rollback", 0, FALSE)>>
        /\ db' = IF ok THEN Commit(db, tx) ELSE FailedCommit(db, tx)
        /\ result' = IF ok THEN Nil ELSE UpdateSchemaError
        /\ envFault' = ~ok
        /\ effects' = IF ok THEN [s \in 1..MaxFiles |-> effects[s] + TimesExecuted(s)]
                          ELSE effects
    /\ tx' = NoTx
    /\ pc' = "done"
    /\ UNCHANGED <<dir, available, applied, i, pre, repeat, lastOK, errUpdate>>

\* Apply has returned; the caller may call it again.
Returns ==
    /\ pc = "done"
    /\ pc' = "idle"
    /\ lastOK' = IF result = Nil THEN [set |-> TRUE, dir |-> dir] ELSE NoCollection
    /\ dir' = {}
    /\ available' = <<>>
    /\ applied' = <<>>
    /\ i' = 0
    /\ result' = "none"
    /\ pre' = db
    /\ dbCalls' = <<>>
    /\ envFault' = FALSE
    /\ repeat' = FALSE
    /\ errUpdate' = NoUpdate
    /\ UNCHANGED <<db, tx, effects>>

Return ==
    /\ Returns
    /\ UNCHANGED failedFrom

\* The same return, with a failure noted for the invocation that follows: the
\* database the first of the failed invocations in a row was called on.
ReturnNoted ==
    /\ Returns
    /\ failedFrom' = IF result = Nil THEN NoFailure
                     ELSE IF failedFrom.set THEN failedFrom
                     ELSE [set |-> TRUE, db |-> pre]

Next ==
    \/ Call
    \/ Load
    \/ Begin
    \/ CreateTable
    \/ Query
    \/ Check
    \/ Exec
    \/ Insert
    \/ CommitTx
    \/ Return

Spec == Init /\ [][Next]_vars

SpecFresh == InitFresh /\ [][Next]_vars

\* Invocations one after the other, failures noted
NextNoted ==
    \/ Call
    \/ Load
    \/ Begin
    \/ CreateTable
    \/ Query
    \/ Check
    \/ Exec
    \/ Insert
    \/ CommitTx
    \/ ReturnNoted

SpecRetry == InitFresh /\ [][NextNoted]_vars

----------------------------------------------------------------------------
(* Vocabulary of the properties                                            *)

Returned == pc = "done"

\* Sequence numbers of the updates whose SQL this invocation passed to
\* tx.Exec, in call order, failed calls included.
RECURSIVE ExecSeqs(_)
ExecSeqs(calls) ==
    IF calls = <<>> THEN <<>>
    ELSE IF Head(calls).op = "Exec"
        THEN <<Head(calls).seq>> \o ExecSeqs(Tail(calls))
        ELSE ExecSeqs(Tail(calls))

Executed == ExecSeqs(dbCalls)

\* Number of log rows this invocation inserted.
Inserted ==
    Cardinality({k \in 1..Len(dbCalls) : dbCalls[k].op = "Insert" /\ dbCalls[k].ok})

\* A collection of files named by the numbers 1..N, one file per number.
ValidCollection(d) ==
    /\ d # {}
    /\ \A e \in d : ~e.isDir /\ updateFileMask(e.name)
    /\ \A n \in 1..Cardinality(d) : \E e \in d : SeqOf(e.name) = n

FileOfSeq(d, n) == CHOOSE e \in d : SeqOf(e.name) = n

Interval(a, b) == [k \in 1..(IF b >= a THEN b - a + 1 ELSE 0) |-> a + k - 1]

IsPrefix(s, t) == Len(s) <= Len(t) /\ SubSeq(t, 1, Len(s)) = s

\* The log holds exactly the updates 1..k of the collection d.
LogHoldsPrefixOf(log, d) ==
    /\ Len(log) <= Cardinality(d)
    /\ \A k \in 1..Len(log) :
        /\ log[k].seq = k
        /\ log[k].sha1 = Sha1Hex(FileOfSeq(d, k).contents)

\* Some log row carries another checksum than the file of the same sequence.
ChecksumDrift(log, d) ==
    \E k \in 1..Len(log), e \in d :
        /\ SeqOf(e.name) = log[k].seq
        /\ Sha1Hex(e.contents) # log[k].sha1

\* A tx.Exec of an update's SQL or of its log insert failed.
UpdateFailed ==
    \E k \in 1..Len(dbCalls) : dbCalls[k].op \in {"Exec", "Insert"} /\ ~dbCalls[k].ok

----------------------------------------------------------------------------
(* The helpers updates and filter (src/filter.go) and apply (src/apply.go), *)
(* and ApplyUnsafe, which the sources at hand do not hold: it is taken as   *)
(* updates, a transaction with the log table ensured, apply and commit,     *)
(* with no reconciliation in between.                                       *)

Panic == "panic"

\* filter.go:71-147: the statements of open.go:84-156, returning the list
updates(d, list, io) == LoadUpdates(d, list, io)

\* filter.go:27-55. Every applied row is compared with updates[0], and
\* len(updates) is tested, while remaining loses its head at each match;
\* remaining[1:] of an empty slice is a run-time panic.
RECURSIVE filterLoop(_, _, _)
filterLoop(rows, list, remaining) ==
    IF rows = <<>> THEN [err |-> Nil, remaining |-> remaining]
    ELSE IF Len(list) = 0
        THEN [err |-> UpdateSchemaError, remaining |-> <<>>]
    ELSE IF Head(rows).seq # list[1].seq
        THEN [err |-> UpdateSchemaError, remaining |-> <<>>]
    ELSE IF Head(rows).sha1 # list[1].sha1
        THEN [err |-> UpdateSchemaError, remaining |-> <<>>]
    ELSE IF remaining = <<>>
        THEN [err |-> Panic, remaining |-> <<>>]
    ELSE filterLoop(Tail(rows), list, Tail(remaining))

filter(list, rows) == filterLoop(rows, list, list)

ValidCollections == {d \in Collections : ValidCollection(d)}

\* The list updates returns for a valid collection
Loaded(d) == updates(d, CHOOSE list \in SortSlice(d) : TRUE, "none").available

RowsOf(list, k) == [j \in 1..k |-> Row(list[j])]

\* tx.Exec of the first k updates of list, one after the other
RECURSIVE ExecAll(_, _, _)
ExecAll(list, k, schema) ==
    IF k = 0 THEN [ok |-> TRUE, schema |-> schema]
    ELSE LET before == ExecAll(list, k - 1, schema) IN
         IF ~before.ok THEN before
         ELSE ExecSQL(list[k].contents, before.schema)

\* The databases a successful Apply of the first k updates of d leaves
AppliedDatabases(d) ==
    IF ~ValidCollection(d) THEN {}
    ELSE {[table |-> TRUE, log |-> RowsOf(Loaded(d), k),
           schema |-> ExecAll(Loaded(d), k, {}).schema] :
            k \in {j \in 1..Cardinality(d) : ExecAll(Loaded(d), j, {}).ok}}

\* Logs filter is handed with the list loaded from d: the first k updates
\* of d or of a valid collection with at most one file that d does not hold
\* (a file changed or added since), the logs written by something else, and
\* a log holding update 1 twice.
FilterLogs(d) ==
    UNION {{RowsOf(Loaded(d2), k) : k \in 0..Cardinality(d2)} :
            d2 \in {c \in ValidCollections : Cardinality(c \ d) <= 1}}
        \cup ForeignLogs
        \cup {<<LogRow(Name(<<"1">>), CreateA), LogRow(Name(<<"1">>), CreateA)>>}

\* Either ApplyUnsafe(db, dir) is about to run, or filter(updates, tx) is,
\* on the list loaded from dir and a transaction that has just begun.
InitHelpers ==
    /\ \/ /\ pc = "unsafe.load"
          /\ dir \in Collections
          /\ db \in PreexistingDatabases \cup AppliedDatabases(dir)
          /\ tx = NoTx
          /\ available = <<>>
       \/ /\ pc = "filter.query"
          /\ dir \in ValidCollections
          /\ \E l \in FilterLogs(dir), t \in BOOLEAN :
                db = [table |-> t, log |-> IF t THEN l ELSE <<>>, schema |-> {}]
          /\ tx = BeginTx(db)
          /\ available = Loaded(dir)
    /\ applied = <<>>
    /\ i = 0
    /\ result = "none"
    /\ pre = db
    /\ dbCalls = <<>>
    /\ envFault = FALSE
    /\ repeat = FALSE
    /\ lastOK = NoCollection
    /\ effects = [s \in 1..MaxFiles |-> 0]
    /\ errUpdate = NoUpdate
    /\ failedFrom = NoFailure

\* The error return of ApplyUnsafe once its transaction is open
UnsafeAbort(call, err, fault) ==
    /\ dbCalls' = dbCalls \o <<call, DbCall("Rollback", 0, TRUE)>>
    /\ db' = Rollback(db, tx)
    /\ tx' = NoTx
    /\ result' = err
    /\ envFault' = fault
    /\ pc' = "unsafe.done"

ApplyUnsafeLoad ==
    /\ pc = "unsafe.load"
    /\ UNCHANGED failedFrom
    /\ \E io \in {"none", "list", "read"}, list \in SortSlice(dir) :
        LET r == updates(dir, list, io) IN
        /\ available' = r.available
        /\ envFault' = (r.err = PlainError)
        /\ IF r.err = Nil
           THEN pc' = "unsafe.begin" /\ result' = result
           ELSE pc' = "unsafe.done" /\ result' = r.err
    /\ UNCHANGED <<db, tx, dir, applied, i, pre, dbCalls, repeat, lastOK, effects,
                   errUpdate>>

ApplyUnsafeBegin ==
    /\ pc = "unsafe.begin"
    /\ UNCHANGED failedFrom
    /\ \E ok \in BOOLEAN :
        /\ dbCalls' = Append(dbCalls, DbCall("Begin", 0, ok))
        /\ IF ok
           THEN /\ tx' = BeginTx(db)
                /\ pc' = "unsafe.create"
                /\ UNCHANGED <<result, envFault>>
           ELSE /\ result' = PlainError
                /\ envFault' = TRUE
                /\ pc' = "unsafe.done"
                /\ tx' = tx
    /\ UNCHANGED <<db, dir, available, applied, i, pre, repeat, lastOK, effects,
                   errUpdate>>

ApplyUnsafeCreateTable ==
    /\ pc = "unsafe.create"
    /\ UNCHANGED failedFrom
    /\ \E ok \in BOOLEAN :
        IF ok
        THEN /\ tx' = CreateSchemaUpdates(tx)
             /\ dbCalls' = Append(dbCalls, DbCall("ExecCreate", 0, TRUE))
             /\ i' = 1
             /\ pc' = "apply.exec"
             /\ UNCHANGED <<db, result, envFault>>
        ELSE /\ UnsafeAbort(DbCall("ExecCreate", 0, FALSE), UpdateSchemaError, TRUE)
             /\ i' = i
    /\ UNCHANGED <<dir, available, applied, pre, repeat, lastOK, effects, errUpdate>>

\* Faulty variant: an update whose sequence the log already holds is skipped
applyExecSkipsLogged ==
    /\ pc = "apply.exec"
    /\ UNCHANGED failedFrom
    /\ LET up == available[i]
           r == ExecSQL(up.contents, tx.schema) IN
        IF \E k \in 1..Len(pre.log) : pre.log[k].seq = up.seq
        THEN /\ i' = i + 1
             /\ pc' = IF i = Len(available) THEN "unsafe.commit" ELSE "apply.exec"
             /\ UNCHANGED <<db, tx, result, envFault, dbCalls, errUpdate>>
        ELSE \E driverOK \in (IF r.ok THEN BOOLEAN ELSE {TRUE}) :
            IF r.ok /\ driverOK
            THEN /\ tx' = [tx EXCEPT !.schema = r.schema]
                 /\ dbCalls' = Append(dbCalls, DbCall("Exec", up.seq, TRUE))
                 /\ pc' = "apply.insert"
                 /\ UNCHANGED <<db, result, envFault, errUpdate, i>>
            ELSE /\ UnsafeAbort(DbCall("Exec", up.seq, FALSE), UpdateSchemaError, ~driverOK)
                 /\ errUpdate' = Named(up)
                 /\ i' = i
    /\ UNCHANGED <<dir, available, applied, pre, repeat, lastOK, effects>>

\* apply.go:10-15; on the error the caller returns and rolls back
applyExec ==
    /\ pc = "apply.exec"
    /\ UNCHANGED failedFrom
    /\ LET up == available[i]
           r == ExecSQL(up.contents, tx.schema) IN
        \E driverOK \in (IF r.ok THEN BOOLEAN ELSE {TRUE}) :
            IF r.ok /\ driverOK
            THEN /\ tx' = [tx EXCEPT !.schema = r.schema]
                 /\ dbCalls' = Append(dbCalls, DbCall("Exec", up.seq, TRUE))
                 /\ pc' = "apply.insert"
                 /\ UNCHANGED <<db, result, envFault, errUpdate>>
            ELSE /\ UnsafeAbort(DbCall("Exec", up.seq, FALSE), UpdateSchemaError, ~driverOK)
                 /\ errUpdate' = Named(up)
    /\ UNCHANGED <<dir, available, applied, i, pre, repeat, lastOK, effects>>

\* apply.go:16-24
applyInsert ==
    /\ pc = "apply.insert"
    /\ UNCHANGED failedFrom
    /\ LET up == available[i] IN
        \E ok \in BOOLEAN :
            IF ok
            THEN /\ tx' = InsertSchemaUpdate(tx, up)
                 /\ dbCalls' = Append(dbCalls, DbCall("Insert", up.seq, TRUE))
                 /\ i' = i + 1
                 /\ pc' = IF i = Len(available) THEN "unsafe.commit" ELSE "apply.exec"
                 /\ UNCHANGED <<db, result, envFault, errUpdate>>
            ELSE /\ UnsafeAbort(DbCall("Insert", up.seq, FALSE), UpdateSchemaError, TRUE)
                 /\ errUpdate' = Named(up)
                 /\ i' = i
    /\ UNCHANGED <<dir, available, applied, pre, repeat, lastOK, effects>>

ApplyUnsafeCommit ==
    /\ pc = "unsafe.commit"
    /\ UNCHANGED failedFrom
    /\ \E ok \in BOOLEAN :
        /\ dbCalls' = dbCalls \o <<DbCall("Commit", 0, ok), DbCall("Rollback", 0, FALSE)>>
        /\ db' = IF ok THEN Commit(db, tx) ELSE FailedCommit(db, tx)
        /\ result' = IF ok THEN Nil ELSE UpdateSchemaError
        /\ envFault' = ~ok
    /\ tx' = NoTx
    /\ pc' = "unsafe.done"
    /\ UNCHANGED <<dir, available, applied, i, pre, repeat, lastOK, effects, errUpdate>>

\* filter.go:11-25. filter returns its errors to the caller, who holds tx.
filterQuery ==
    /\ pc = "filter.query"
    /\ UNCHANGED failedFrom
    /\ \/ /\ tx.table
          /\ \E rows \in QueryApplied(tx.log) : applied' = rows
          /\ dbCalls' = Append(dbCalls, DbCall("Query", 0, TRUE))
          /\ pc' = "filter.check"
          /\ UNCHANGED <<available, result, envFault>>
       \/ /\ dbCalls' = Append(dbCalls, DbCall("Query", 0, FALSE))
          /\ result' = UpdateSchemaError
          /\ envFault' = tx.table
          /\ available' = <<>>
          /\ pc' = "filter.done"
          /\ applied' = applied
       \/ /\ tx.table /\ tx.log # <<>>      \* rows.Scan fails
          /\ dbCalls' = Append(dbCalls, DbCall("Query", 0, TRUE))
          /\ result' = PlainError
          /\ envFault' = TRUE
          /\ available' = <<>>
          /\ pc' = "filter.done"
          /\ applied' = applied
    /\ UNCHANGED <<db, tx, dir, i, pre, repeat, lastOK, effects, errUpdate>>

\* filter.go:27-55: the list returned takes the place of the one passed
filterCheck ==
    /\ pc = "filter.check"
    /\ UNCHANGED failedFrom
    /\ LET r == filter(available, applied) IN
        /\ available' = r.remaining
        /\ result' = r.err
    /\ pc' = "filter.done"
    /\ UNCHANGED <<db, tx, dir, applied, i, pre, dbCalls, envFault, repeat, lastOK,
                   effects, errUpdate>>

NextHelpers ==
    \/ ApplyUnsafeLoad
    \/ ApplyUnsafeBegin
    \/ ApplyUnsafeCreateTable
    \/ applyExec
    \/ applyInsert
    \/ ApplyUnsafeCommit
    \/ filterQuery
    \/ filterCheck

SpecHelpers == InitHelpers /\ [][NextHelpers]_vars

----------------------------------------------------------------------------
(* Properties                                                              *)

\* C1: when Apply has succeeded with a valid collection 1..N and is called
\* again on the same database with the same collection, the second call
\* (no collaborator failing) returns nil, passes no update's SQL to tx.Exec,
\* inserts no log row and leaves the database as it was.
C1_ReapplyIsIdempotent ==
    (Returned /\ repeat /\ ~envFault) =>
        /\ ValidCollection(dir)
        /\ result = Nil
        /\ Executed = <<>>
        /\ Inserted = 0
        /\ db = pre

C1_Witness ==
    /\ Returned /\ repeat /\ ~envFault
    /\ Cardinality(dir) >= 2
    /\ Len(db.log) = Cardinality(dir)

\* C2: when the execution of the SQL or the log insert of some pending
\* update fails, Apply returns an UpdateSchemaError and the durable database
\* is what it was before the call: no log row, no table of any pending
\* update, and no schema_updates table created by the call.
C2_FailedUpdateLeavesNothing ==
    (Returned /\ UpdateFailed) =>
        /\ result = UpdateSchemaError
        /\ db = pre
        /\ ~tx.open

C2_Witness ==
    /\ Returned /\ UpdateFailed
    /\ Len(available) = 3
    /\ i = 2
    /\ Inserted = 1
    /\ dbCalls[Len(dbCalls) - 1] = DbCall("Exec", available[2].seq, FALSE)

\* C3: when the log holds a row whose checksum differs from that of the
\* loaded file of the same sequence, Apply of a valid collection fails, with
\* an UpdateSchemaError unless a collaborator failed first, passes no
\* update's SQL to tx.Exec and leaves the durable database as it was.
C3_ChecksumDriftFails ==
    (Returned /\ ValidCollection(dir) /\ ChecksumDrift(pre.log, dir)) =>
        /\ result # Nil
        /\ ~envFault => result = UpdateSchemaError
        /\ Executed = <<>>
        /\ Inserted = 0
        /\ db = pre

C3_Witness ==
    /\ Returned /\ ValidCollection(dir) /\ ChecksumDrift(pre.log, dir)
    /\ result = UpdateSchemaError
    /\ Len(applied) = 2
    /\ Cardinality(dir) = 3
    /\ applied[1].sha1 = Sha1Hex(FileOfSeq(dir, 1).contents)
    /\ applied[2].sha1 # Sha1Hex(FileOfSeq(dir, 2).contents)

\* C4: when the log holds exactly the updates 1..k of a valid collection
\* 1..N, Apply passes to tx.Exec only SQL of the updates k+1..N, in ascending
\* order, and when it returns nil it has executed all of k+1..N, inserted
\* N-k rows, and the log is the old log followed by the rows k+1..N.
C4_AppliesExactlyTheRest ==
    (pc # "idle" /\ ValidCollection(dir) /\ LogHoldsPrefixOf(pre.log, dir)) =>
        LET k == Len(pre.log)
            N == Cardinality(dir) IN
        /\ IsPrefix(Executed, Interval(k + 1, N))
        /\ (Returned /\ result = Nil) =>
            /\ Executed = Interval(k + 1, N)
            /\ Inserted = N - k
            /\ Len(db.log) = N
            /\ SubSeq(db.log, 1, k) = pre.log
            /\ \A j \in (k + 1)..N : db.log[j].seq = j

C4_Witness ==
    /\ Returned /\ result = Nil
    /\ ValidCollection(dir) /\ LogHoldsPrefixOf(pre.log, dir)
    /\ Len(pre.log) = 1
    /\ Cardinality(dir) = 3
    /\ Executed = <<2, 3>>

\* C5: after Apply of a collection 1..N returned nil on a database with no
\* log rows, the log has exactly N rows, row i with sequence i, the name of
\* the i-th file and the SHA-1 of its contents, and reading it ordered by
\* seq gives 1..N.
C5_LogAfterFirstApply ==
    (Returned /\ result = Nil /\ pre.log = <<>>) =>
        /\ ValidCollection(dir)
        /\ Len(db.log) = Cardinality(dir)
        /\ \A k \in 1..Len(db.log) :
            /\ db.log[k].seq = k
            /\ db.log[k].filename = FileOfSeq(dir, k).name
            /\ db.log[k].sha1 = Sha1Hex(FileOfSeq(dir, k).contents)
        /\ \A rows \in QueryApplied(db.log) :
            \A k \in 1..Len(rows) : rows[k].seq = k

C5_Witness ==
    /\ Returned /\ result = Nil /\ pre.log = <<>>
    /\ Cardinality(dir) = 3
    /\ db.log[2].filename = Name(<<"0", "2">>)
    /\ db.log[3].sha1 = Sha1Hex(DropA)

\* C6: starting from a database nobody has written to, over any sequence of
\* Apply invocations every sequence number has had its SQL committed as
\* often as it has log rows, which is at most once, and no invocation passes
\* to tx.Exec the SQL of an update that had a committed log row when the
\* invocation began.
C6_AppliedExactlyOnce ==
    /\ \A s \in 1..MaxFiles :
        /\ effects[s] <= 1
        /\ effects[s] = Cardinality({k \in 1..Len(db.log) : db.log[k].seq = s})
    /\ \A k \in 1..Len(db.log) : db.log[k].seq \in 1..MaxFiles
    /\ \A k \in 1..Len(Executed), j \in 1..Len(pre.log) :
        Executed[k] # pre.log[j].seq

C6_Witness ==
    /\ Returned /\ result = Nil
    /\ Len(pre.log) = 2
    /\ Executed = <<3>>
    /\ effects[1] = 1 /\ effects[2] = 1 /\ effects[3] = 1

\* C7: when Apply returns an InvalidUpdateFilesError it has made no call on
\* the database handle (no Begin, no statement), no transaction is open and
\* the database is what it was.
C7_InvalidFilesBeforeDatabase ==
    (Returned /\ result = InvalidUpdateFilesError) =>
        /\ dbCalls = <<>>
        /\ ~tx.open
        /\ db = pre

C7_Witness ==
    /\ Returned /\ result = InvalidUpdateFilesError
    /\ dir # {}
    /\ Len(db.log) = 2

\* The smallest number parsed from the names of d is not 1.
MinSeqNotOne(d) ==
    /\ d # {}
    /\ \A e \in d : SeqOf(e.name) = 1 => \E e0 \in d : SeqOf(e0.name) < 1

\* C8: for a collection whose smallest parsed number is not 1 Apply fails,
\* with InvalidUpdateFilesError unless the listing itself failed, and makes
\* no call on the database.
C8_MustStartAtOne ==
    (Returned /\ MinSeqNotOne(dir)) =>
        /\ result # Nil
        /\ ~envFault => result = InvalidUpdateFilesError
        /\ dbCalls = <<>>
        /\ db = pre

C8_Witness ==
    /\ Returned /\ MinSeqNotOne(dir)
    /\ result = InvalidUpdateFilesError
    /\ {SeqOf(e.name) : e \in dir} = {2, 3}
    /\ \A e \in dir : ~e.isDir /\ updateFileMask(e.name)

\* Two entries parse to the same number, or a number above the smallest has
\* no entry one below it.
GapOrDuplicate(d) ==
    \/ \E e1, e2 \in d : e1 # e2 /\ SeqOf(e1.name) = SeqOf(e2.name)
    \/ \E e \in d :
        /\ \E e0 \in d : SeqOf(e0.name) < SeqOf(e.name)
        /\ \A e1 \in d : SeqOf(e1.name) # SeqOf(e.name) - 1

\* C9: for a collection with a gap or a duplicate among its parsed numbers
\* Apply fails, with InvalidUpdateFilesError unless the listing itself
\* failed, and makes no call on the database.
C9_MustBeContiguous ==
    (Returned /\ GapOrDuplicate(dir)) =>
        /\ result # Nil
        /\ ~envFault => result = InvalidUpdateFilesError
        /\ dbCalls = <<>>
        /\ db = pre

C9_Witness ==
    /\ Returned /\ GapOrDuplicate(dir)
    /\ result = InvalidUpdateFilesError
    /\ dir = {File(Name(<<"1">>), CreateA), File(Name(<<"3">>), CreateB)}

\* The collection is empty, or holds a directory or a name outside the mask.
BadEntry(d) ==
    \/ d = {}
    \/ \E e \in d : e.isDir \/ ~updateFileMask(e.name)

\* C10: for a collection that is empty or holds a directory or an entry
\* whose name does not match ^[0-9]+\.sql$, whatever its other entries,
\* Apply fails, with InvalidUpdateFilesError unless the listing itself
\* failed, and makes no call on the database.
C10_BadEntryRejected ==
    (Returned /\ BadEntry(dir)) =>
        /\ result # Nil
        /\ ~envFault => result = InvalidUpdateFilesError
        /\ dbCalls = <<>>
        /\ db = pre

C10_Witness ==
    /\ Returned /\ BadEntry(dir)
    /\ result = InvalidUpdateFilesError
    /\ dir = {File(Name(<<"1">>), CreateA), Directory(Name(<<"2">>))}

\* The applied log has more rows than d has files, or a row whose sequence
\* is beyond the number of files of d.
LogBeyond(log, d) ==
    \/ Len(log) > Cardinality(d)
    \/ \E k \in 1..Len(log) : log[k].seq > Cardinality(d)

\* C11: when the applied log holds more entries than the valid collection
\* has updates, or an entry whose sequence exceeds their number, Apply
\* fails, with UpdateSchemaError unless a collaborator failed first, and
\* nothing is applied: no update's SQL is executed, no row inserted, the
\* database stays as it was.
C11_LongerLogFails ==
    (Returned /\ ValidCollection(dir) /\ LogBeyond(pre.log, dir)) =>
        /\ result # Nil
        /\ ~envFault => result = UpdateSchemaError
        /\ Executed = <<>>
        /\ Inserted = 0
        /\ db = pre

C11_Witness ==
    /\ Returned /\ ValidCollection(dir) /\ LogBeyond(pre.log, dir)
    /\ result = UpdateSchemaError
    /\ Cardinality(dir) = 2
    /\ Len(applied) = 3
    /\ LogHoldsPrefixOf(SubSeq(pre.log, 1, 2), dir)
    /\ dbCalls[Len(dbCalls) - 1] = DbCall("Query", 0, TRUE)

\* Read in ascending order of seq, some applied row among the first N does
\* not carry the sequence of its position.
LogDiverges(log, d) ==
    \E rows \in QueryApplied(log) :
        \E k \in 1..Len(rows) : k <= Cardinality(d) /\ rows[k].seq # k

\* C12: when an applied row, in ascending order of seq, does not carry the
\* sequence of the next loaded update not yet consumed (a gap, a duplicate),
\* Apply of a valid collection fails, with UpdateSchemaError unless a
\* collaborator failed first, and nothing is applied.
C12_DivergingLogFails ==
    (Returned /\ ValidCollection(dir) /\ LogDiverges(pre.log, dir)) =>
        /\ result # Nil
        /\ ~envFault => result = UpdateSchemaError
        /\ Executed = <<>>
        /\ Inserted = 0
        /\ db = pre

C12_Witness ==
    /\ Returned /\ ValidCollection(dir) /\ LogDiverges(pre.log, dir)
    /\ result = UpdateSchemaError
    /\ Cardinality(dir) = 3
    /\ Len(applied) = 2
    /\ applied[1].seq = 1 /\ applied[1].sha1 = Sha1Hex(FileOfSeq(dir, 1).contents)
    /\ applied[2].seq = 3 /\ applied[2].sha1 = Sha1Hex(FileOfSeq(dir, 2).contents)

\* The transaction of this invocation was opened.
TxOpened == dbCalls # <<>> /\ dbCalls[1] = DbCall("Begin", 0, TRUE)

CommitFailed ==
    \E k \in 1..Len(dbCalls) : dbCalls[k] = DbCall("Commit", 0, FALSE)

\* C13: when the commit fails after every pending update ran and was
\* logged, Apply returns UpdateSchemaError and the database is as before the
\* call; and whenever Apply fails after its transaction was opened, the
\* last thing it did on the transaction is the rollback, the transaction is
\* over and the database is as before the call.
C13_FailureAfterBeginRollsBack ==
    /\ (Returned /\ CommitFailed) => (result = UpdateSchemaError /\ db = pre)
    /\ (Returned /\ TxOpened /\ result # Nil) =>
        /\ dbCalls[Len(dbCalls)].op = "Rollback"
        /\ ~tx.open
        /\ db = pre

C13_Witness ==
    /\ Returned /\ CommitFailed
    /\ result = UpdateSchemaError
    /\ Executed = <<1, 2, 3>>
    /\ Inserted = 3
    /\ pre.schema = {}
    /\ db = pre

\* The rows this invocation's transaction adds to the log when it commits.
BatchRows == [k \in 1..Len(available) |-> Row(available[k])]

\* C14: a reader outside the transaction sees the database either as it was
\* before the call, or, once Apply has returned nil, with the whole batch of
\* pending updates logged; it never sees a log with part of the batch.
C14_NoIntermediateStateOutside ==
    \/ db = pre
    \/ /\ Returned /\ result = Nil
       /\ db.table
       /\ db.log = pre.log \o BatchRows

C14_Witness ==
    /\ pc = "insert" /\ i = 2
    /\ Len(available) = 3
    /\ Len(tx.log) = Len(pre.log) + 1
    /\ tx.schema # pre.schema
    /\ db = pre

IsApplyCall(c) == c.op \in {"Exec", "Insert"}

\* The calls of the loop over the pending updates, in call order.
ApplyCalls == SelectSeq(dbCalls, IsApplyCall)

\* C18: the pending updates are processed in ascending sequence order, each
\* update's SQL is executed before its log row is inserted and that before
\* the next update's SQL; the first failing execution or insertion is the
\* last call of the loop, and Apply returns UpdateSchemaError naming the
\* sequence and filename of that update.
C18_AppliedInOrderUntilFirstFailure ==
    LET U == ApplyCalls
        n == Len(U) IN
    /\ \A k \in 1..n :
        /\ U[k].op = (IF k % 2 = 1 THEN "Exec" ELSE "Insert")
        /\ (k + 1) \div 2 <= Len(available)
        /\ U[k].seq = available[(k + 1) \div 2].seq
        /\ k < n => U[k].ok
    /\ \A j \in 1..(Len(available) - 1) : available[j].seq < available[j + 1].seq
    /\ (n > 0 /\ ~U[n].ok) =>
        /\ Returned
        /\ result = UpdateSchemaError
        /\ errUpdate = Named(available[(n + 1) \div 2])
    /\ errUpdate # NoUpdate => (n > 0 /\ ~U[n].ok)

C18_Witness ==
    /\ Returned
    /\ Len(available) = 3
    /\ Len(ApplyCalls) = 4
    /\ ApplyCalls[3] = DbCall("Exec", 2, TRUE)
    /\ ApplyCalls[4] = DbCall("Insert", 2, FALSE)
    /\ result = UpdateSchemaError
    /\ errUpdate = [seq |-> 2, filename |-> Name(<<"0", "2">>)]

\* C19: the log table is created if absent, inside the transaction, before
\* the log is read: the read comes third, after a successful begin and a
\* successful create; at the read the table exists and the rows and schema
\* are those the database had; and on a database without the table the
\* applied set read is empty, every loaded update is pending, and the
\* missing table is no cause of failure.
C19_LogTableEnsuredBeforeRead ==
    /\ \A k \in 1..Len(dbCalls) :
        dbCalls[k].op = "Query" =>
            /\ k = 3
            /\ dbCalls[1] = DbCall("Begin", 0, TRUE)
            /\ dbCalls[2] = DbCall("ExecCreate", 0, TRUE)
    /\ pc = "query" =>
        /\ tx.open /\ tx.table
        /\ tx.log = pre.log
        /\ tx.schema = pre.schema
        /\ db = pre
    /\ (~pre.table /\ pc \in {"reconcile", "exec", "insert", "commit"}) =>
        applied = <<>>
    /\ (~pre.table /\ pc \in {"exec", "insert", "commit"}) =>
        /\ Len(available) = Cardinality(dir)
        /\ \A k \in 1..Len(available) : available[k].seq = k
    /\ (~pre.table /\ Returned /\ ~envFault /\ ValidCollection(dir)) =>
        /\ dbCalls[3] = DbCall("Query", 0, TRUE)
        /\ Executed # <<>> /\ Executed[1] = 1

C19_Witness ==
    /\ pc = "commit"
    /\ ~pre.table /\ ~db.table /\ tx.table
    /\ applied = <<>>
    /\ Len(available) = 3
    /\ Len(tx.log) = 3

\* C20: when the loader succeeds on a collection of N files, the list has N
\* updates, the k-th has sequence k, the parsed number of the name of one
\* file of the collection (so 02.sql is second, after 1.sql), and carries
\* that file's contents and the hash of those contents; and a collection
\* named by 1..N, zero-padded names included, is not rejected.
C20_LoadedListIsOneToN ==
    /\ pc \in {"begin", "create", "query", "reconcile"} =>
        /\ Len(available) = Cardinality(dir)
        /\ \A k \in 1..Len(available) :
            /\ available[k].seq = k
            /\ SeqOf(available[k].filename) = k
            /\ \E e \in dir :
                /\ ~e.isDir
                /\ e.name = available[k].filename
                /\ available[k].contents = e.contents
                /\ available[k].sha1 = Sha1Hex(e.contents)
    /\ (Returned /\ ValidCollection(dir)) => result # InvalidUpdateFilesError

C20_Witness ==
    /\ pc = "begin"
    /\ Len(available) = 3
    /\ available[1].filename = Name(<<"1">>)
    /\ available[2].filename = Name(<<"0", "2">>)
    /\ available[3].filename = Name(<<"3">>)
    /\ available[2].sha1 = Sha1Hex(CreateB)
    /\ available[1].sha1 # available[2].sha1

\* C15: the kind of error a caller finds with errors.As separates the three
\* cases: an error returned as InvalidUpdateFilesError is found as that and
\* not as UpdateSchemaError, one returned as UpdateSchemaError is found as
\* that and not as InvalidUpdateFilesError, and any other error is found as
\* neither.
C15_ErrorKindsSeparate ==
    Returned =>
        /\ result = InvalidUpdateFilesError =>
            /\ ErrorsAs(result, InvalidUpdateFilesError)
            /\ ~ErrorsAs(result, UpdateSchemaError)
        /\ result = UpdateSchemaError =>
            /\ ErrorsAs(result, UpdateSchemaError)
            /\ ~ErrorsAs(result, InvalidUpdateFilesError)
        /\ result = PlainError =>
            /\ ~ErrorsAs(result, InvalidUpdateFilesError)
            /\ ~ErrorsAs(result, UpdateSchemaError)

UnsafeReturned == pc = "unsafe.done"

\* C16: ApplyUnsafe reads no log and reconciles nothing: for a valid
\* collection 1..N it executes the updates in ascending order from 1, all N
\* of them when it returns nil, and then the log holds the rows it had
\* followed by N new rows, whatever it held before; the only failures are
\* a collaborator's or a statement's, never the log's.
C16_UnsafeAppliesAll ==
    /\ pc \in {"unsafe.load", "unsafe.begin", "unsafe.create", "apply.exec",
               "apply.insert", "unsafe.commit", "unsafe.done"} =>
        \A k \in 1..Len(dbCalls) : dbCalls[k].op # "Query"
    /\ (UnsafeReturned /\ ValidCollection(dir)) =>
        /\ IsPrefix(Executed, Interval(1, Cardinality(dir)))
        /\ result = Nil =>
            /\ Executed = Interval(1, Cardinality(dir))
            /\ Inserted = Cardinality(dir)
            /\ db.table
            /\ db.log = pre.log \o RowsOf(Loaded(dir), Cardinality(dir))
        /\ (result # Nil /\ ~envFault) =>
            /\ result = UpdateSchemaError
            /\ dbCalls[Len(dbCalls) - 1].op = "Exec"
            /\ db = pre

C16_Witness ==
    /\ UnsafeReturned /\ result = Nil
    /\ Cardinality(dir) = 2
    /\ Len(pre.log) = 2 /\ LogHoldsPrefixOf(pre.log, dir)
    /\ Executed = <<1, 2>>
    /\ Len(db.log) = 4
    /\ db.log[3] = db.log[1] /\ db.log[4] = db.log[2]

\* C17: for a list loaded from 1..N and a log holding 1..k of it with the
\* same sequences and checksums, 0 <= k <= N, filter returns nil and the
\* loaded updates k+1..N in their order (absent a collaborator failure).
C17_FilterReturnsTheRest ==
    (/\ pc = "filter.done"
     /\ ~envFault
     /\ pre.table
     /\ LogHoldsPrefixOf(pre.log, dir)) =>
        /\ result = Nil
        /\ available = SubSeq(Loaded(dir), Len(pre.log) + 1, Cardinality(dir))

\* C21: starting from a database without a log, after any sequence of Apply
\* invocations, with any collections and any outcomes, the committed log
\* holds the sequence numbers 1..k, each once, for some k >= 0; and so does
\* the log of the transaction in progress.
C21_CommittedLogIsOneToK ==
    /\ \A k \in 1..Len(db.log) : db.log[k].seq = k
    /\ \A k \in 1..Len(tx.log) : tx.log[k].seq = k
    /\ db.log # <<>> => db.table

C21_Witness ==
    /\ Returned /\ result = UpdateSchemaError
    /\ ValidCollection(dir) /\ Cardinality(dir) = 3
    /\ Len(pre.log) = 2
    /\ Executed = <<3>>
    /\ db.log[1].seq = 1 /\ db.log[2].seq = 2 /\ Len(db.log) = 2

\* C22: no invocation of Apply, whatever its outcome, removes or changes a
\* row committed before it: the log committed before the call is a prefix
\* of the committed log at every point of the call and after it, and of the
\* log of the call's transaction; a log table that was there stays.
C22_LogIsAppendOnly ==
    /\ IsPrefix(pre.log, db.log)
    /\ tx.open => IsPrefix(pre.log, tx.log)
    /\ pre.table => db.table
    /\ (Returned /\ result # Nil) => db.log = pre.log

C22_Witness ==
    /\ Returned /\ result = Nil
    /\ Len(pre.log) = 1
    /\ Len(db.log) = 3
    /\ db.log[1] = pre.log[1]

\* Apply(db, d) on the database S, run to its return with no collaborator
\* failing (open.go:83-229): the error returned, the sequence numbers passed
\* to tx.Exec, and the database it leaves.
DirectApply(d, S) ==
    LET rows == CHOOSE r \in QueryApplied(S.log) : TRUE
        rec == Reconcile(rows, Loaded(d))
        pending == rec.available
        n == Len(pending)
        Ran(j) == ExecAll(pending, j, S.schema)
        failing == CHOOSE j \in 1..n :
                        ~Ran(j).ok /\ \A h \in 1..(j - 1) : Ran(h).ok
    IN  IF rec.err # Nil
            THEN [result |-> rec.err, executed |-> <<>>, db |-> S]
        ELSE IF Ran(n).ok
            THEN [result |-> Nil,
                  executed |-> [j \in 1..n |-> pending[j].seq],
                  db |-> [table |-> TRUE,
                          log |-> S.log \o RowsOf(pending, n),
                          schema |-> Ran(n).schema]]
        ELSE [result |-> UpdateSchemaError,
              executed |-> [j \in 1..failing |-> pending[j].seq],
              db |-> S]

\* C23: after Apply has failed, for whatever reason, on a database S, the
\* database is S, and an Apply that follows with a valid collection whose
\* first updates are those of the log of S returns, executes and leaves
\* what Apply called on S directly does (no collaborator failing in it).
C23_FailureLeavesNoTrace ==
    failedFrom.set =>
        /\ pc = "idle" => db = failedFrom.db
        /\ pc # "idle" => pre = failedFrom.db
        /\ (/\ Returned /\ ~envFault
            /\ ValidCollection(dir)
            /\ LogHoldsPrefixOf(failedFrom.db.log, dir)) =>
                /\ result = DirectApply(dir, failedFrom.db).result
                /\ Executed = DirectApply(dir, failedFrom.db).executed
                /\ db = DirectApply(dir, failedFrom.db).db

C23_Witness ==
    /\ failedFrom.set
    /\ Returned /\ ~envFault /\ result = Nil
    /\ ValidCollection(dir) /\ Cardinality(dir) = 3
    /\ Len(failedFrom.db.log) = 1
    /\ LogHoldsPrefixOf(failedFrom.db.log, dir)
    /\ Executed = <<2, 3>>
    /\ Len(db.log) = 3

====
